---- MODULE Spec2Model ----
(***************************************************************************)
(* Model of the real-time message relay of samikhan1239/server.            *)
(*                                                                         *)
(* The repository holds several drafts of the same WebSocket server.  Two  *)
(* of them carry the logic modelled here:                                  *)
(*   - the "registry" draft, src/models/User.js lines 70-225: connection   *)
(*     registry (activeConnections) and messageId-keyed duplicate check;   *)
(*   - the "windowed" draft, src/server.js lines 228-358: no registry and  *)
(*     a time-windowed duplicate check.                                    *)
(* Spec is the registry draft, SpecW the windowed draft.                    *)
(*                                                                         *)
(* Runtime assumptions, stated once:                                       *)
(*   - Node's event loop: a handler runs without interruption up to its    *)
(*     next await on store I/O; `await connectDB()` with an established    *)
(*     connection (start() awaits it before listening) resolves within the *)
(*     same turn.                                                          *)
(*   - `WebSocket.OPEN` resolves to the global WebSocket (value 1).        *)
(*   - ws.send on a socket that is not OPEN drops the payload and does not *)
(*     throw (ws >= 7, the releases that export WebSocketServer).          *)
(*   - identifiers: a well-formed ObjectId hex string is one of ObjectIds; *)
(*     "" stands for an absent (falsy) field, "bad" for a malformed id.    *)
(***************************************************************************)
EXTENDS Integers, Sequences, FiniteSets, TLC

\* ------------------------------------------------------------------ bounds
\* connections plus inbound frames the clients produce in one run, and the
\* inbound frames among them
MaxArrivals == 3
MaxMsgs == 1
\* the same for the deep specifications, which reach the long races
DeepArrivals == 4
DeepMsgs == 2

\* --------------------------------------------------------------- constants
PolicyViolation == 1008
DedupWindowMs == 5000

MaxConns == IF DeepArrivals > MaxArrivals THEN DeepArrivals ELSE MaxArrivals

Conns == 1..MaxConns

\* Well-formed 24-hex identifiers that occur in the explored inputs.
ObjectIds == {"g1", "g2", "s1", "u1", "u2"}

\* mongoose.Types.ObjectId.isValid
IsValid(v) == v \in ObjectIds

\* mongoose.Types.ObjectId.createFromHexString: string -> ObjectId
createFromHexString(s) == [oid |-> s]

NullId == [oid |-> ""]

\* Connection-establishment parameters the clients use (req.url query).
Requests ==
  { [gigId |-> "g1", sellerId |-> "s1", userId |-> "s1"],
    [gigId |-> "g1", sellerId |-> "s1", userId |-> "u1"],
    [gigId |-> "g1", sellerId |-> "s1", userId |-> "u2"],
    [gigId |-> "g2", sellerId |-> "s1", userId |-> "u1"],
    [gigId |-> "",   sellerId |-> "s1", userId |-> "u1"],
    [gigId |-> "g1", sellerId |-> "s1", userId |-> "bad"] }

\* Keys the handshake can offer to the activeConnections Map
UserKeys == { q.userId : q \in Requests }

NoQuery == [gigId |-> "", sellerId |-> "", userId |-> ""]
NoClose == [code |-> 0, reason |-> ""]

ErrorPayload(e) == [error |-> e]

\* Absent numeric field (undefined)
Absent == -1

\* Frames the clients send: JSON text (parses) or not; "" / Absent: field not present.
Frame(g, s, t, r, ts, mid) ==
  [parses |-> TRUE, gigId |-> g, senderId |-> s, text |-> t, recipientId |-> r,
   timestamp |-> ts, messageId |-> mid]

\* frames no draft accepts
BadFrames ==
  { Frame("g1", "u1", "", "", 1000, "m3"),
    Frame("bad", "u1", "hi", "", 1000, "m3"),
    Frame("g1", "u1", "hi", "bad", 1000, "m3"),
    [parses |-> FALSE, gigId |-> "", senderId |-> "", text |-> "", recipientId |-> "",
     timestamp |-> Absent, messageId |-> ""] }

\* frames sent to the registry draft
Frames ==
  { Frame("g1", "u1", "hi", "", 1000, "m1"),
    Frame("g2", "s1", "yo", "s1", Absent, "") } \cup BadFrames

\* frames sent to the windowed draft
FramesW ==
  { Frame("g1", "u1", "hi", "", 1000, ""),
    Frame("g1", "u1", "hi", "", 6000, ""),
    Frame("g1", "u1", "hi", "", 7000, ""),
    Frame("g1", "u1", "hi", "s1", Absent, "") } \cup BadFrames

\* Date.now(): the reading of the server clock
Clock == {2000}

\* The users collection: _id -> the fields populate("userId", "name avatar") joins in
UserIds == {"s1", "u1", "u2"}
NoUser == [_id |-> NullId, name |-> "", avatar |-> ""]
UserDoc(id) ==
  IF id.oid \in UserIds
  THEN [_id |-> id, name |-> id.oid, avatar |-> "/default-avatar.png"]
  ELSE NoUser

VARIABLES
  strictQuery,       \* mongoose strictQuery setting of the build
  nConns,            \* connections accepted by wss so far: ids 1..nConns
  req,               \* req.url query of each connection
  readyState,        \* ws.readyState: "NONE" (not yet connected), "OPEN", "CLOSING", "CLOSED"
  query,             \* ws.query (NoQuery until admitted)
  closeSent,         \* code and reason of the server's ws.close call, if any
  sent,              \* payloads written to each connection by ws.send while OPEN
  activeConnections, \* Map<userId, Set<WebSocket>>: userId -> Set object id (0: no entry)
  setObj,            \* the Set objects: id -> members (id k: created while admitting k)
  userConnections,   \* the Set object captured by each connection's closures (0: none)
  received,          \* "message" events each connection has emitted so far
  tasks,             \* invocations of the async "message" handler that reached an await
  store              \* the messages collection, in insertion order (_id: position)

connVars == <<nConns, req, readyState, query, closeSent>>
regVars == <<activeConnections, setObj, userConnections>>
msgVars == <<received, tasks, store>>
buildVars == <<strictQuery>>

vars == <<strictQuery, nConns, req, readyState, query, closeSent, sent,
          activeConnections, setObj, userConnections, received, tasks, store>>

RECURSIVE SumTo(_, _)
SumTo(f, n) == IF n = 0 THEN 0 ELSE f[n] + SumTo(f, n - 1)

\* "message" events emitted so far, over all connections
nFrames == SumTo(received, MaxConns)

Arrivals == nConns + nFrames

\* ws.readyState values
OPEN == "OPEN"
CLOSING == "CLOSING"
CLOSED == "CLOSED"

Init ==
  /\ strictQuery \in BOOLEAN
  /\ nConns = 0
  /\ req = [c \in Conns |-> NoQuery]
  /\ readyState = [c \in Conns |-> "NONE"]
  /\ query = [c \in Conns |-> NoQuery]
  /\ closeSent = [c \in Conns |-> NoClose]
  /\ sent = [c \in Conns |-> <<>>]
  /\ activeConnections = [u \in UserKeys |-> 0]
  /\ setObj = [k \in Conns |-> {}]
  /\ userConnections = [c \in Conns |-> 0]
  /\ received = [c \in Conns |-> 0]
  /\ tasks = <<>>
  /\ store = <<>>

\* ws.send(payload) on connection c
Send(out, c, payload) ==
  IF readyState[c] = OPEN THEN [out EXCEPT ![c] = Append(@, payload)] ELSE out

\* !gigId || !sellerId || !userId
MissingParams(q) == q.gigId = "" \/ q.sellerId = "" \/ q.userId = ""

\* InvalidParams without the test of userId
InvalidParams_NoUserId(q) == ~IsValid(q.gigId) \/ ~IsValid(q.sellerId)

\* !isValid(gigId) || !isValid(sellerId) || !isValid(userId)
InvalidParams(q) == ~IsValid(q.gigId) \/ ~IsValid(q.sellerId) \/ ~IsValid(q.userId)

\* Superseded with the stale test on the wrong handshake field
Superseded_WrongField(bucket, ws, gigId) ==
  { client \in bucket : client # ws /\ query[client].userId = gigId }

\* The connections the admission of ws closes and removes from the bucket.
Superseded(bucket, ws, gigId) ==
  { client \in bucket : client # ws /\ query[client].gigId = gigId }

\* wss.on("connection") of the registry draft
OnConnection(q) ==
  LET ws == nConns + 1 IN
  /\ nConns' = ws
  /\ req' = [req EXCEPT ![ws] = q]
  /\ IF MissingParams(q) THEN
       /\ sent' = [sent EXCEPT ![ws] = Append(@, ErrorPayload("Missing required query parameters"))]
       /\ readyState' = [readyState EXCEPT ![ws] = CLOSING]
       /\ closeSent' = [closeSent EXCEPT ![ws] =
                          [code |-> PolicyViolation, reason |-> "Missing gigId, sellerId, or userId"]]
       /\ UNCHANGED <<query, activeConnections, setObj, userConnections>>
     ELSE IF InvalidParams(q) THEN
       /\ sent' = [sent EXCEPT ![ws] = Append(@, ErrorPayload("Invalid gigId, sellerId, or userId"))]
       /\ readyState' = [readyState EXCEPT ![ws] = CLOSING]
       /\ closeSent' = [closeSent EXCEPT ![ws] =
                          [code |-> PolicyViolation, reason |-> "Invalid gigId, sellerId, or userId"]]
       /\ UNCHANGED <<query, activeConnections, setObj, userConnections>>
     ELSE
       LET k == IF activeConnections[q.userId] = 0 THEN ws ELSE activeConnections[q.userId]
           bucket == setObj[k] \cup {ws}
           old == IF Cardinality(bucket) > 1 THEN Superseded(bucket, ws, q.gigId) ELSE {}
       IN
       /\ query' = [query EXCEPT ![ws] = q]
       /\ activeConnections' = [activeConnections EXCEPT ![q.userId] = k]
       /\ userConnections' = [userConnections EXCEPT ![ws] = k]
       /\ setObj' = [setObj EXCEPT ![k] = bucket \ old]
       /\ readyState' = [c \in Conns |->
                           IF c = ws THEN OPEN
                           ELSE IF c \in old /\ readyState[c] = OPEN THEN CLOSING
                           ELSE readyState[c]]
       /\ closeSent' = [c \in Conns |->
                          IF c \in old /\ readyState[c] = OPEN
                          THEN [code |-> PolicyViolation, reason |-> "Duplicate connection"]
                          ELSE closeSent[c]]
       /\ sent' = sent
  /\ UNCHANGED <<buildVars, msgVars>>

\* The client's close frame (or the loss of the socket) reaches the server:
\* ws moves the socket to CLOSING and emits "close" once the socket has ended.
PeerClosing(c) ==
  /\ readyState[c] = OPEN
  /\ readyState' = [readyState EXCEPT ![c] = CLOSING]
  /\ UNCHANGED <<buildVars, nConns, req, query, closeSent, sent, regVars, msgVars>>

\* SetDelete that removes nothing
SetDelete_Noop(bucket, ws) == bucket

\* userConnections.delete(ws)
SetDelete(bucket, ws) == bucket \ {ws}

\* MapDelete that keeps the entry
MapDelete_Noop(map, userId) == map

\* activeConnections.delete(userId)
MapDelete(map, userId) == [map EXCEPT ![userId] = 0]

\* ws.on("close") of the registry draft (no handler on a rejected connection)
OnClose(c) ==
  /\ readyState[c] = CLOSING
  /\ readyState' = [readyState EXCEPT ![c] = CLOSED]
  /\ IF userConnections[c] # 0 THEN
       LET k == userConnections[c]
           bucket == SetDelete(setObj[k], c)
       IN
       /\ setObj' = [setObj EXCEPT ![k] = bucket]
       /\ activeConnections' =
            IF bucket = {} THEN MapDelete(activeConnections, query[c].userId)
            ELSE activeConnections
     ELSE UNCHANGED <<setObj, activeConnections>>
  /\ UNCHANGED <<buildVars, nConns, req, query, closeSent, sent, userConnections, msgVars>>

\* ------------------------------------------------------------- the store
NoMessageId == [given |-> "", sender |-> "", ts |-> 0]

\* message.messageId || `${message.senderId}:${message.timestamp || Date.now()}`
MessageIdOf(message, now) ==
  IF message.messageId # "" THEN [given |-> message.messageId, sender |-> "", ts |-> 0]
  ELSE [given |-> "", sender |-> message.senderId,
        ts |-> IF message.timestamp = Absent \/ message.timestamp = 0 THEN now
               ELSE message.timestamp]

\* The paths of MessageSchema; Message.create keeps these and drops every other
\* field of the record it is given (messageId, read).
MessageSchemaPaths == {"gigId", "userId", "recipientId", "text", "timestamp"}

\* The document Message.create inserts for a message; `live` turns FALSE when the
\* document is removed from the collection by another client of the store.
NewDoc(message, ts) ==
  [gigId |-> createFromHexString(message.gigId),
   userId |-> createFromHexString(message.senderId),
   recipientId |-> IF message.recipientId # "" THEN createFromHexString(message.recipientId)
                   ELSE NullId,
   text |-> message.text,
   timestamp |-> ts,
   live |-> TRUE]

\* Message.findOne({ messageId }) returns a document.  messageId is no path of
\* MessageSchema: with strictQuery the filter loses the key and matches any
\* document; without it the filter matches documents holding that messageId,
\* and no document holds one.
ExistingByMessageId(messageId) ==
  IF "messageId" \in MessageSchemaPaths THEN FALSE
  ELSE IF strictQuery THEN \E i \in 1..Len(store) : store[i].live
  ELSE FALSE

\* Message.findOne({ gigId, userId, text, timestamp: { $gte: timestamp - 5000 } })
ExistingInWindow(message) ==
  \E i \in 1..Len(store) :
    /\ store[i].live
    /\ store[i].gigId = createFromHexString(message.gigId)
    /\ store[i].userId = createFromHexString(message.senderId)
    /\ store[i].text = message.text
    /\ store[i].timestamp >= message.timestamp - DedupWindowMs

\* Message.findById(_id).populate("userId", "name avatar").lean()
Populated(id) ==
  [_id |-> id,
   gigId |-> store[id].gigId,
   userId |-> UserDoc(store[id].userId),
   recipientId |-> store[id].recipientId,
   text |-> store[id].text,
   timestamp |-> store[id].timestamp]

\* ---------------------------------------------------------- message loop
\* !message.gigId || !message.senderId || !message.text
MissingFields(message) == message.gigId = "" \/ message.senderId = "" \/ message.text = ""

\* InvalidIds without the test of a present recipientId
InvalidIds_NoRecipient(message) == ~IsValid(message.gigId) \/ ~IsValid(message.senderId)

\* !isValid(gigId) || !isValid(senderId) || (recipientId && !isValid(recipientId))
InvalidIds(message) ==
  \/ ~IsValid(message.gigId)
  \/ ~IsValid(message.senderId)
  \/ (message.recipientId # "" /\ ~IsValid(message.recipientId))

\* wss.clients: the sockets the server tracks (dropped once closed)
Clients == { c \in Conns : readyState[c] \in {OPEN, CLOSING} }

\* Audience that leaves out the sending connection
Audience_ExceptSender(ws) ==
  { client \in Clients :
      /\ client # ws
      /\ readyState[client] = OPEN
      /\ query[client] # NoQuery
      /\ query[client].gigId = query[ws].gigId
      /\ (query[client].userId = query[ws].sellerId \/ query[client].userId = query[ws].userId) }

\* Audience without the test of the gig
Audience_AnyGig(ws) ==
  { client \in Clients :
      /\ readyState[client] = OPEN
      /\ query[client] # NoQuery
      /\ (query[client].userId = query[ws].sellerId \/ query[client].userId = query[ws].userId) }

\* The clients the broadcast loop of connection ws writes to: gigId, sellerId and
\* userId are the handshake parameters of ws, captured by its handler.
Audience(ws) ==
  { client \in Clients :
      /\ readyState[client] = OPEN
      /\ query[client] # NoQuery
      /\ query[client].gigId = query[ws].gigId
      /\ (query[client].userId = query[ws].sellerId \/ query[client].userId = query[ws].userId) }

\* Broadcast that stops at the first addressed client it cannot write to
\* (wss.clients iterates in the order the connections were accepted)
Broadcast_Aborted(ws, payload) ==
  LET unwritable == { d \in Clients :
                        /\ readyState[d] # OPEN
                        /\ query[d] # NoQuery
                        /\ query[d].gigId = query[ws].gigId
                        /\ (query[d].userId = query[ws].sellerId
                            \/ query[d].userId = query[ws].userId) }
  IN [c \in Conns |->
        IF c \in Audience(ws) /\ \A d \in unwritable : c < d
        THEN Append(sent[c], payload) ELSE sent[c]]

\* wss.clients.forEach(client => ... client.send(JSON.stringify(populatedMessage)))
Broadcast(ws, payload) ==
  [c \in Conns |-> IF c \in Audience(ws) THEN Append(sent[c], payload) ELSE sent[c]]

\* A socket emits "message" while open, and after the server's own close call
\* until the peer's close frame arrives.
Receiving(c) ==
  /\ query[c] # NoQuery
  /\ \/ readyState[c] = OPEN
     \/ (readyState[c] = CLOSING /\ closeSent[c] # NoClose)

NewTask(c, data, messageId) ==
  [ws |-> c, message |-> data, messageId |-> messageId, pc |-> "findOne",
   timestamp |-> Absent, saved |-> 0, err |-> ""]

\* ws.on("message") of the registry draft, up to its first await
OnMessage(c, data) ==
  /\ Receiving(c)
  /\ received' = [received EXCEPT ![c] = @ + 1]
  /\ IF ~data.parses THEN
       /\ sent' = Send(sent, c, ErrorPayload("Server error"))
       /\ tasks' = tasks
     ELSE IF MissingFields(data) THEN
       /\ sent' = Send(sent, c, ErrorPayload("Invalid message format: Missing gigId, senderId, or text"))
       /\ tasks' = tasks
     ELSE IF InvalidIds(data) THEN
       /\ sent' = Send(sent, c, ErrorPayload("Invalid message IDs"))
       /\ tasks' = tasks
     ELSE
       /\ \E now \in Clock : tasks' = Append(tasks, NewTask(c, data, MessageIdOf(data, now)))
       /\ sent' = sent
  /\ UNCHANGED <<buildVars, connVars, regVars, store>>

\* catch (err): err.code is 11000 for no error the store raises here, as the
\* collection has no unique index besides _id; err.name is what the handler logs
Failed(t, err) ==
  /\ tasks' = [tasks EXCEPT ![t].pc = "error", ![t].err = err]
  /\ sent' = Send(sent, tasks[t].ws, ErrorPayload("Server error"))
  /\ store' = store

\* await Message.findOne({ messageId }) resolves; on no match Message.create is issued
FindOneResolved(t, res) ==
  /\ t \in 1..Len(tasks)
  /\ tasks[t].pc = "findOne"
  /\ IF res = "throws" THEN Failed(t, "MongoError")
     ELSE IF ExistingByMessageId(tasks[t].messageId) THEN
       /\ tasks' = [tasks EXCEPT ![t].pc = "duplicate"]
       /\ UNCHANGED <<sent, store>>
     ELSE
       /\ \E now \in Clock :
            tasks' = [tasks EXCEPT ![t].pc = "create",
                                   ![t].timestamp =
                                      IF tasks[t].message.timestamp = Absent
                                         \/ tasks[t].message.timestamp = 0
                                      THEN now ELSE tasks[t].message.timestamp]
       /\ UNCHANGED <<sent, store>>
  /\ UNCHANGED <<buildVars, connVars, regVars, received>>

\* CreateResolved over a store that answers the calls one at a time, in the
\* order the handlers were started
CreateResolved_InTurn(t, res) ==
  /\ t \in 1..Len(tasks)
  /\ tasks[t].pc = "create"
  /\ \A u \in 1..(t - 1) : tasks[u].pc \notin {"findOne", "create", "findById"}
  /\ IF res = "throws" THEN Failed(t, "MongoError")
     ELSE
       /\ store' = Append(store, NewDoc(tasks[t].message, tasks[t].timestamp))
       /\ tasks' = [tasks EXCEPT ![t].pc = "findById", ![t].saved = Len(store) + 1]
       /\ sent' = sent
  /\ UNCHANGED <<buildVars, connVars, regVars, received>>

\* await Message.create(...) resolves; findById(...).populate(...) is issued
CreateResolved(t, res) ==
  /\ t \in 1..Len(tasks)
  /\ tasks[t].pc = "create"
  /\ IF res = "throws" THEN Failed(t, "MongoError")
     ELSE
       /\ store' = Append(store, NewDoc(tasks[t].message, tasks[t].timestamp))
       /\ tasks' = [tasks EXCEPT ![t].pc = "findById", ![t].saved = Len(store) + 1]
       /\ sent' = sent
  /\ UNCHANGED <<buildVars, connVars, regVars, received>>

\* await Message.findById(...).populate(...).lean() resolves; the broadcast follows
FindByIdResolved(t, res) ==
  /\ t \in 1..Len(tasks)
  /\ tasks[t].pc = "findById"
  /\ IF res = "throws" THEN Failed(t, "MongoError")
     ELSE IF res = "absent" THEN
       /\ store' = [store EXCEPT ![tasks[t].saved].live = FALSE]
       /\ tasks' = [tasks EXCEPT ![t].pc = "noDetails"]
       /\ sent' = Send(sent, tasks[t].ws, ErrorPayload("Failed to retrieve message details"))
     ELSE
       /\ sent' = Broadcast(tasks[t].ws, Populated(tasks[t].saved))
       /\ tasks' = [tasks EXCEPT ![t].pc = "broadcast"]
       /\ store' = store
  /\ UNCHANGED <<buildVars, connVars, regVars, received>>

\* ------------------------------------------------------ the windowed draft
\* wss.on("connection") of the windowed draft
OnConnectionW(q) ==
  LET ws == nConns + 1 IN
  /\ nConns' = ws
  /\ req' = [req EXCEPT ![ws] = q]
  /\ IF MissingParams(q) THEN
       /\ sent' = [sent EXCEPT ![ws] = Append(@, ErrorPayload("Missing required query parameters"))]
       /\ readyState' = [readyState EXCEPT ![ws] = CLOSING]
       /\ closeSent' = [closeSent EXCEPT ![ws] =
                          [code |-> PolicyViolation, reason |-> "Missing gigId, sellerId, or userId"]]
       /\ query' = query
     ELSE IF InvalidParams(q) THEN
       /\ sent' = [sent EXCEPT ![ws] = Append(@, ErrorPayload("Invalid gigId, sellerId, or userId"))]
       /\ readyState' = [readyState EXCEPT ![ws] = CLOSING]
       /\ closeSent' = [closeSent EXCEPT ![ws] =
                          [code |-> PolicyViolation, reason |-> "Invalid gigId, sellerId, or userId"]]
       /\ query' = query
     ELSE
       /\ query' = [query EXCEPT ![ws] = q]
       /\ readyState' = [readyState EXCEPT ![ws] = OPEN]
       /\ UNCHANGED <<sent, closeSent>>
  /\ UNCHANGED <<buildVars, regVars, msgVars>>

\* ws.on("close") of the windowed draft: it only logs
OnCloseW(c) ==
  /\ readyState[c] = CLOSING
  /\ readyState' = [readyState EXCEPT ![c] = CLOSED]
  /\ UNCHANGED <<buildVars, nConns, req, query, closeSent, sent, regVars, msgVars>>

\* ws.on("message") of the windowed draft, up to its first await on the store
OnMessageW(c, data) ==
  /\ Receiving(c)
  /\ received' = [received EXCEPT ![c] = @ + 1]
  /\ IF ~data.parses THEN
       /\ sent' = Send(sent, c, ErrorPayload("Server error"))
       /\ tasks' = tasks
     ELSE IF MissingFields(data) THEN
       /\ sent' = Send(sent, c, ErrorPayload("Invalid message format"))
       /\ tasks' = tasks
     ELSE IF InvalidIds(data) THEN
       /\ sent' = Send(sent, c, ErrorPayload("Invalid message IDs"))
       /\ tasks' = tasks
     ELSE
       /\ tasks' = Append(tasks, NewTask(c, data, NoMessageId))
       /\ sent' = sent
  /\ UNCHANGED <<buildVars, connVars, regVars, store>>

\* await Message.findOne({..., timestamp: { $gte: new Date(message.timestamp - 5000) } })
\* resolves.  Without a numeric timestamp the bound is an Invalid Date and the
\* filter is rejected with a CastError before the query reaches the store.
FindOneResolvedW(t, res) ==
  /\ t \in 1..Len(tasks)
  /\ tasks[t].pc = "findOne"
  /\ IF tasks[t].message.timestamp = Absent THEN Failed(t, "CastError")
     ELSE IF res = "throws" THEN Failed(t, "MongoError")
     ELSE IF ExistingInWindow(tasks[t].message) THEN
       /\ tasks' = [tasks EXCEPT ![t].pc = "duplicate"]
       /\ sent' = Send(sent, tasks[t].ws, ErrorPayload("Duplicate message detected"))
       /\ store' = store
     ELSE
       /\ tasks' = [tasks EXCEPT ![t].pc = "create",
                                 ![t].timestamp = tasks[t].message.timestamp]
       /\ UNCHANGED <<sent, store>>
  /\ UNCHANGED <<buildVars, connVars, regVars, received>>

\* The events of the registry draft, for runs of at most maxArrivals connections
\* and frames, at most maxMsgs of them frames
Step(maxArrivals, maxMsgs) ==
  \/ \E q \in Requests : Arrivals < maxArrivals /\ OnConnection(q)
  \/ \E c \in Conns : PeerClosing(c)
  \/ \E c \in Conns : OnClose(c)
  \/ \E c \in Conns, data \in Frames :
       Arrivals < maxArrivals /\ nFrames < maxMsgs /\ OnMessage(c, data)
  \/ \E t \in 1..Len(tasks), res \in {"ok", "throws"} : FindOneResolved(t, res)
  \/ \E t \in 1..Len(tasks), res \in {"ok", "throws"} : CreateResolved(t, res)
  \/ \E t \in 1..Len(tasks), res \in {"ok", "absent", "throws"} : FindByIdResolved(t, res)

Next == Step(MaxArrivals, MaxMsgs)

\* The registry draft (src/models/User.js)
Spec == Init /\ [][Next]_vars

NextDeep == Step(DeepArrivals, DeepMsgs)

SpecDeep == Init /\ [][NextDeep]_vars

\* No filter of the windowed draft names a path outside the schema: strictQuery
\* has no effect on it.
InitW == Init /\ strictQuery = FALSE

\* The events of the windowed draft
StepW(maxArrivals, maxMsgs) ==
  \/ \E q \in Requests : Arrivals < maxArrivals /\ OnConnectionW(q)
  \/ \E c \in Conns : PeerClosing(c)
  \/ \E c \in Conns : OnCloseW(c)
  \/ \E c \in Conns, data \in FramesW :
       Arrivals < maxArrivals /\ nFrames < maxMsgs /\ OnMessageW(c, data)
  \/ \E t \in 1..Len(tasks), res \in {"ok", "throws"} : FindOneResolvedW(t, res)
  \/ \E t \in 1..Len(tasks), res \in {"ok", "throws"} : CreateResolved(t, res)
  \/ \E t \in 1..Len(tasks), res \in {"ok", "absent", "throws"} : FindByIdResolved(t, res)

NextW == StepW(MaxArrivals, MaxMsgs)

\* The windowed draft (src/server.js)
SpecW == InitW /\ [][NextW]_vars

NextWDeep == StepW(DeepArrivals, DeepMsgs)

SpecWDeep == InitW /\ [][NextWDeep]_vars

\* ------------------------------------------------- an unresponsive store
\* Handshakes and frames of the runs in which store calls may stay unanswered
LiveRequests ==
  { [gigId |-> "g1", sellerId |-> "s1", userId |-> "s1"],
    [gigId |-> "g1", sellerId |-> "s1", userId |-> "u1"] }

LiveFrames == { Frame("g1", "u1", "hi", "", 1000, "m1") }

\* A call the store answers, it answers with success
LiveResults == {"ok"}

\* The store answers the pending call of handler invocation t
Answered(t) ==
  \/ \E res \in LiveResults : FindOneResolved(t, res)
  \/ \E res \in LiveResults : CreateResolved(t, res)
  \/ \E res \in LiveResults : FindByIdResolved(t, res)

\* The events of the registry draft over a store that need not answer
NextLive ==
  \/ \E q \in LiveRequests : Arrivals < DeepArrivals /\ OnConnection(q)
  \/ \E c \in Conns : PeerClosing(c)
  \/ \E c \in Conns : OnClose(c)
  \/ \E c \in Conns, data \in LiveFrames :
       Arrivals < DeepArrivals /\ nFrames < DeepMsgs /\ OnMessage(c, data)
  \/ \E t \in 1..Len(tasks) : Answered(t)

\* The store answers the pending call of handler invocation t, which was not
\* made for the first connection
AnsweredElsewhere(t) == t \in 1..Len(tasks) /\ tasks[t].ws # 1 /\ Answered(t)

\* The event loop runs every close event that is due and resumes every handler
\* whose store call has been answered; the store answers every call but,
\* possibly, those made for the first connection, which may stay unanswered
\* for ever.
Fairness ==
  /\ \A c \in Conns : WF_vars(OnClose(c))
  /\ \A t \in 1..DeepMsgs : WF_vars(AnsweredElsewhere(t))

\* The registry draft with a store that may leave the first connection's calls
\* unanswered
SpecLive == Init /\ [][NextLive]_vars /\ Fairness

\* ================================================================ claims
Admitted(c) == query[c] # NoQuery

\* The payload of task t has been written to connection c
Delivered(t, c) ==
  \E i \in 1..Len(sent[c]) :
    "_id" \in DOMAIN sent[c][i] /\ sent[c][i]._id = tasks[t].saved

\* a and b are the two designated parties of one conversation: the same gig and
\* seller, one of them the seller's own connection
Parties(a, b) ==
  /\ a # b
  /\ Admitted(a) /\ Admitted(b)
  /\ query[a].gigId = query[b].gigId
  /\ query[a].sellerId = query[b].sellerId
  /\ query[a].userId # query[b].userId
  /\ (query[a].userId = query[a].sellerId \/ query[b].userId = query[b].sellerId)

\* C1: when the broadcast of an accepted message runs, and the sending
\* connection and the other party of its conversation are both open, the payload
\* is written to both of them, whichever of the two parties is the sender.
C1_SymmetricAudience ==
  [][\A t \in 1..Len(tasks) :
       (tasks[t].pc = "findById" /\ tasks'[t].pc = "broadcast") =>
         \A b \in Conns :
           (Parties(tasks[t].ws, b) /\ readyState[tasks[t].ws] = OPEN /\ readyState[b] = OPEN)
             => /\ Len(sent'[tasks[t].ws]) = Len(sent[tasks[t].ws]) + 1
                /\ Len(sent'[b]) = Len(sent[b]) + 1]_vars

\* C2: no two open admitted connections are bound to the same (userId, gigId).
C2_OneOpenPerUserGig ==
  \A c, d \in Conns :
    (c # d /\ Admitted(c) /\ Admitted(d) /\ readyState[c] = OPEN /\ readyState[d] = OPEN)
      => (query[c].userId # query[d].userId \/ query[c].gigId # query[d].gigId)

\* C3: the Set the registry stores for a userId never holds two connections
\* bound to the same gigId.
C3_OnePerGigInBucket ==
  \A u \in UserKeys :
    activeConnections[u] # 0 =>
      \A c, d \in setObj[activeConnections[u]] :
        c # d => query[c].gigId # query[d].gigId

\* C3 witness: a bucket holds two connections (of different gigs) after an
\* admission has superseded an older connection of the same user.
C3_Witness ==
  \E u \in UserKeys :
    /\ activeConnections[u] # 0
    /\ Cardinality(setObj[activeConnections[u]]) = 2
    /\ \E c \in Conns :
         /\ query[c].userId = u
         /\ closeSent[c].reason = "Duplicate connection"

\* Two handler invocations carry the same (gigId, senderId, text)
SamePayload(t, u) ==
  /\ tasks[t].message.gigId = tasks[u].message.gigId
  /\ tasks[t].message.senderId = tasks[u].message.senderId
  /\ tasks[t].message.text = tasks[u].message.text

Abs(n) == IF n < 0 THEN -n ELSE n

\* The message of task t is a StoredMessage of the collection
Stored(t) == tasks[t].saved # 0 /\ store[tasks[t].saved].live

\* C4: of two inbound messages with the same (gigId, senderId, text) and
\* timestamps at most 5000 ms apart, at most one becomes a StoredMessage (and so
\* at most one is broadcast), however their processing interleaves.
C4_OneStoredPerWindow ==
  \A t, u \in 1..Len(tasks) :
    ( /\ t # u
      /\ SamePayload(t, u)
      /\ tasks[t].message.timestamp # Absent
      /\ tasks[u].message.timestamp # Absent
      /\ Abs(tasks[t].message.timestamp - tasks[u].message.timestamp) <= DedupWindowMs )
    => ~(Stored(t) /\ Stored(u))

\* C5: a message is rejected as a duplicate only if the collection holds a
\* message with the same (gigId, senderId, text) whose timestamp is within
\* 5000 ms of the inbound timestamp, in either direction.
C5_DuplicateOnlyWithinWindow ==
  \A t \in 1..Len(tasks) :
    tasks[t].pc = "duplicate" =>
      \E i \in 1..Len(store) :
        /\ store[i].gigId = createFromHexString(tasks[t].message.gigId)
        /\ store[i].userId = createFromHexString(tasks[t].message.senderId)
        /\ store[i].text = tasks[t].message.text
        /\ Abs(store[i].timestamp - tasks[t].message.timestamp) <= DedupWindowMs

\* C6: of the submissions that carry one messageId, at most one becomes a
\* StoredMessage (and so at most one is broadcast).
C6_OneStoredPerMessageId ==
  \A t, u \in 1..Len(tasks) :
    (t # u /\ tasks[t].message.messageId # "" /\ tasks[t].messageId = tasks[u].messageId)
      => ~(Stored(t) /\ Stored(u))

\* C7: two messages received on one connection and both persisted are persisted
\* in the order of their receipt: the earlier one's StoredMessage is created first.
C7_PersistedInReceiptOrder ==
  \A t, u \in 1..Len(tasks) :
    (t < u /\ tasks[t].ws = tasks[u].ws /\ tasks[t].saved # 0 /\ tasks[u].saved # 0)
      => tasks[t].saved < tasks[u].saved


\* The connection is held by a Set that activeConnections maps a userId to
InRegistry(c) ==
  \E u \in UserKeys : activeConnections[u] # 0 /\ c \in setObj[activeConnections[u]]

\* The connection has closed: its close event was emitted, or an admission
\* superseded it
Closed(c) == readyState[c] = CLOSED \/ closeSent[c].reason = "Duplicate connection"

\* C8: a connection that has closed (close event emitted, or superseded) is not
\* in the registry, and no step writes a payload to an admitted connection that
\* is not open, whatever was in flight when it closed.
C8_ClosedGetsNothing ==
  /\ [](\A c \in Conns : Closed(c) => ~InRegistry(c))
  /\ [][\A c \in Conns : (Admitted(c) /\ readyState[c] # OPEN) => sent'[c] = sent[c]]_vars

\* C8 witness: a message was broadcast to another connection after its sender
\* had closed, and the sender did not get it.
C8_Witness ==
  \E t \in 1..Len(tasks) :
    /\ tasks[t].pc = "broadcast"
    /\ Closed(tasks[t].ws)
    /\ ~Delivered(t, tasks[t].ws)
    /\ \E d \in Conns : d # tasks[t].ws /\ Delivered(t, d)

\* A frame that passes shape and identifier validation
WellFormed(message) ==
  /\ message.parses
  /\ message.gigId \in ObjectIds
  /\ message.senderId \in ObjectIds
  /\ message.text # ""
  /\ message.recipientId \in ObjectIds \cup {""}

\* C9: only well-formed frames get past validation; a step that takes a frame
\* from connection c and starts no store operation leaves the collection, the
\* registry and every connection's state as they were, writes nothing to any
\* other connection, and writes one error payload to c if c is open.
C9_RejectedFrame ==
  /\ [](\A t \in 1..Len(tasks) : WellFormed(tasks[t].message))
  /\ [][\A c \in Conns :
          (received'[c] = received[c] + 1 /\ Len(tasks') = Len(tasks)) =>
            /\ store' = store /\ tasks' = tasks
            /\ regVars' = regVars /\ connVars' = connVars
            /\ \A d \in Conns \ {c} : sent'[d] = sent[d]
            /\ readyState[c] = OPEN =>
                 /\ Len(sent'[c]) = Len(sent[c]) + 1
                 /\ SubSeq(sent'[c], 1, Len(sent[c])) = sent[c]
                 /\ DOMAIN sent'[c][Len(sent'[c])] = {"error"}]_vars

\* C9 witness: a frame with a malformed id was rejected on an open connection:
\* it got the error, the other party of its conversation got nothing, and
\* nothing was stored.
C9_Witness ==
  \E c, d \in Conns :
    /\ Parties(c, d)
    /\ readyState[c] = OPEN /\ readyState[d] = OPEN
    /\ received[c] = 1
    /\ sent[c] = << ErrorPayload("Invalid message IDs") >>
    /\ sent[d] = <<>>
    /\ store = <<>> /\ tasks = <<>>

\* Handshake parameters that are all present and well-formed
GoodParams(q) == q.gigId \in ObjectIds /\ q.sellerId \in ObjectIds /\ q.userId \in ObjectIds

Rejected(c) == readyState[c] # "NONE" /\ ~GoodParams(req[c])

\* C10: a connection with a missing or malformed gigId, sellerId or userId got
\* one error payload and the close code 1008, is in no bucket, and no message is
\* taken from it; the step that rejects it leaves the registry and every other
\* connection as they were.
C10_RejectedHandshake ==
  /\ [](\A c \in Conns : Rejected(c) =>
          /\ ~Admitted(c) /\ readyState[c] # OPEN
          /\ closeSent[c].code = PolicyViolation
          /\ Len(sent[c]) = 1 /\ DOMAIN sent[c][1] = {"error"}
          /\ userConnections[c] = 0
          /\ \A k \in Conns : c \notin setObj[k]
          /\ received[c] = 0
          /\ \A t \in 1..Len(tasks) : tasks[t].ws # c)
  /\ [][(nConns' = nConns + 1 /\ ~GoodParams(req'[nConns'])) =>
          /\ regVars' = regVars
          /\ \A d \in 1..nConns :
               /\ readyState'[d] = readyState[d]
               /\ closeSent'[d] = closeSent[d]
               /\ sent'[d] = sent[d]]_vars

\* C10 witness: a handshake without gigId and one with a malformed userId were
\* rejected while a connection of the same gig stayed open and registered.
C10_Witness ==
  \E c, c2, d \in Conns :
    /\ Rejected(c) /\ req[c].gigId = ""
    /\ Rejected(c2) /\ req[c2].userId = "bad"
    /\ Admitted(d) /\ readyState[d] = OPEN /\ InRegistry(d)
    /\ query[d].gigId = req[c2].gigId

\* C11: a well-formed frame that carries no client timestamp is accepted: its
\* handler never ends in an error that the missing timestamp causes (it can end
\* in an error only when the store fails).
C11_NoTimestampAccepted ==
  \A t \in 1..Len(tasks) :
    tasks[t].message.timestamp = Absent => tasks[t].err # "CastError"

\* The handler invocation t is awaiting the store
Pending(t) == tasks[t].pc \in {"findOne", "create", "findById"}

\* C12: at most one message of a connection is awaiting the store at any time:
\* while one is pending, the connection starts processing no further message.
C12_OneInFlightPerConnection ==
  \A t, u \in 1..Len(tasks) :
    (t # u /\ tasks[t].ws = tasks[u].ws) => ~(Pending(t) /\ Pending(u))

\* C13: the registry removal of a connection is performed once on its way from
\* admitted to closed, never a second time: when the close event of a connection
\* arrives after its removal was already performed (at its eviction), nothing is
\* removed from the registry again.
C13_RemovedExactlyOnce ==
  [][\A c \in Conns :
       ( /\ Admitted(c) /\ readyState[c] = CLOSING /\ readyState'[c] = CLOSED
         /\ c \notin setObj[userConnections[c]] )
       => regVars' = regVars]_vars

\* Step of the handler invocation t that runs its broadcast
Broadcasts(t) == tasks[t].pc = "findById" /\ tasks'[t].pc = "broadcast"

\* C14: the broadcast of an accepted message writes the payload to exactly the
\* open connections bound to the sending connection's gigId whose userId is the
\* sending connection's sellerId or userId, and writes nothing to any other
\* connection (another buyer of the gig, a connection of another gig).
C14_ExactAudience ==
  [][\A t \in 1..Len(tasks) :
       Broadcasts(t) =>
         \A c \in Conns :
           IF /\ readyState[c] = OPEN
              /\ Admitted(c)
              /\ query[c].gigId = query[tasks[t].ws].gigId
              /\ query[c].userId \in {query[tasks[t].ws].sellerId, query[tasks[t].ws].userId}
           THEN /\ Len(sent'[c]) = Len(sent[c]) + 1
                /\ SubSeq(sent'[c], 1, Len(sent[c])) = sent[c]
                /\ sent'[c][Len(sent'[c])]._id = tasks[t].saved
           ELSE sent'[c] = sent[c]]_vars

\* C14 witness: a buyer's message was broadcast while another buyer of the same
\* gig was open: the sender got it, the other buyer got nothing.
C14_Witness ==
  \E t \in 1..Len(tasks), d \in Conns :
    /\ tasks[t].pc = "broadcast"
    /\ Delivered(t, tasks[t].ws)
    /\ d # tasks[t].ws /\ Admitted(d) /\ readyState[d] = OPEN
    /\ query[d].gigId = query[tasks[t].ws].gigId
    /\ query[d].userId \notin {query[tasks[t].ws].sellerId, query[tasks[t].ws].userId}
    /\ sent[d] = <<>>

\* C15: the step that rejects a message as a duplicate writes one error payload
\* to the originating connection (if it is open) and nothing to any other
\* connection, and leaves the collection, the registry and every connection's
\* state as they were.
C15_DuplicateRejected ==
  [][\A t \in 1..Len(tasks) :
       (tasks[t].pc = "findOne" /\ tasks'[t].pc = "duplicate") =>
         /\ store' = store
         /\ regVars' = regVars /\ connVars' = connVars
         /\ \A d \in Conns \ {tasks[t].ws} : sent'[d] = sent[d]
         /\ readyState[tasks[t].ws] = OPEN =>
              /\ Len(sent'[tasks[t].ws]) = Len(sent[tasks[t].ws]) + 1
              /\ DOMAIN sent'[tasks[t].ws][Len(sent'[tasks[t].ws])] = {"error"}]_vars

\* Connection c is bound to the gig and to one of the two users the broadcast of
\* connection ws addresses, whatever its readyState
Addressed(ws, c) ==
  /\ Admitted(c)
  /\ query[c].gigId = query[ws].gigId
  /\ query[c].userId \in {query[ws].sellerId, query[ws].userId}

StoreFailed(t) == tasks[t].pc \in {"error", "noDetails"}

\* C17: a failed store operation leaves no partial state: a message whose
\* handler ended without a broadcast was delivered to no connection and is not
\* left in the collection as a StoredMessage.
C17_NoPartialState ==
  \A t \in 1..Len(tasks) :
    StoreFailed(t) =>
      /\ \A c \in Conns : ~Delivered(t, c)
      /\ ~Stored(t)

\* C18: the broadcast of an accepted message writes the payload to the
\* connection that sent it, if that connection is open when the broadcast runs.
C18_SenderInAudience ==
  [][\A t \in 1..Len(tasks) :
       (Broadcasts(t) /\ readyState[tasks[t].ws] = OPEN) =>
         sent'[tasks[t].ws] = Append(sent[tasks[t].ws], Populated(tasks[t].saved))]_vars

\* C18 witness: a seller's message came back to the seller's own connection.
C18_Witness ==
  \E t \in 1..Len(tasks) :
    /\ tasks[t].pc = "broadcast"
    /\ readyState[tasks[t].ws] = OPEN
    /\ query[tasks[t].ws].userId = query[tasks[t].ws].sellerId
    /\ sent[tasks[t].ws] = << Populated(tasks[t].saved) >>

\* C20: activeConnections never maps a userId to an empty Set.
C20_NoEmptyBucket ==
  \A u \in UserKeys :
    activeConnections[u] # 0 => setObj[activeConnections[u]] # {}

\* C20 witness: the close of a user's last connection emptied the user's Set and
\* the user's entry left the map, while another user's entry stayed.
C20_Witness ==
  \E c, d \in Conns :
    /\ Admitted(c) /\ readyState[c] = CLOSED
    /\ setObj[userConnections[c]] = {}
    /\ activeConnections[query[c].userId] = 0
    /\ Admitted(d) /\ activeConnections[query[d].userId] # 0

\* No message of a connection other than the first awaits the store, and no
\* connection awaits its close event
Quiet ==
  /\ \A t \in 1..Len(tasks) : tasks[t].ws # 1 => ~Pending(t)
  /\ \A c \in Conns : readyState[c] # CLOSING

C21_OpenIsRegistered ==
  \A c \in Conns :
    (Admitted(c) /\ readyState[c] = OPEN) =>
      /\ activeConnections[query[c].userId] # 0
      /\ c \in setObj[activeConnections[query[c].userId]]

\* C22: every message payload written to a connection carries the gigId the
\* connection is bound to.
C22_PayloadOfOwnGig ==
  \A c \in Conns :
    \A i \in 1..Len(sent[c]) :
      "_id" \in DOMAIN sent[c][i] =>
        sent[c][i].gigId = createFromHexString(query[c].gigId)
====
